---- MODULE Spec2Model ----
(***************************************************************************)
(* Model of the analytics AI service (analytics/service.go, main.go).      *)
(*                                                                         *)
(* Spec       one call of AnalyzeLogs / AnalyzePerformance: the grouping   *)
(*            loop, the rendering of the prompt, the single remote call    *)
(*            and the decoding of its reply.                               *)
(* SpecClean  cleanJSONResponse applied to bounded texts.                  *)
(* SpecApi    callGeminiAPI applied to every modelled remote reply.        *)
(* SpecSrv    concurrently handled HTTP requests and the uploads/ files.   *)
(* SpecHandler  a request to /analyze/logs or /analyze/performance, from   *)
(*            the decoding of its body to its response.                    *)
(* SpecNet    the network call of callGeminiAPI in time, under the         *)
(*            client's timeout and the caller's context.                   *)
(* SpecCsv    ConvertToCSV, written and read back character by character.  *)
(***************************************************************************)
EXTENDS Integers, Sequences, FiniteSets, TLC

VARIABLES
    kind,        \* "logs" (AnalyzeLogs) or "performance" (AnalyzePerformance)
    logs,        \* the batch passed to the call
    i,           \* number of entries the grouping loop has consumed
    pathStats,   \* map path -> statistics struct
    summary,     \* strings.Builder: the sequence of strings written so far
    rendered,    \* keys of pathStats the statistics loop has visited
    avgTimes,    \* map path -> avgTime computed by the statistics loop
    prompt,      \* the prompt string
    requests,    \* prompts sent to the remote endpoint, one per network call
    reply,       \* the remote reply to the call
    result,      \* what the call returns: [val, err]
    pc           \* position in the call

aggVars == <<kind, logs, i, pathStats, summary, rendered, avgTimes, prompt,
             requests, reply, result, pc>>

VARIABLES
    cleanIn,     \* the text given to cleanJSONResponse
    cleanOut,    \* the text it returns
    cleanPc      \* "call" before the call, "done" after it

cleanVars == <<cleanIn, cleanOut, cleanPc>>

VARIABLES
    apiReply,    \* what the network gives back to a call of callGeminiAPI
    apiResult,   \* how the call ends
    apiPc        \* "call" before the call, "done" after it

apiVars == <<apiReply, apiResult, apiPc>>

VARIABLES
    srvReq,      \* per request: its endpoint, file name and body
    srvPc,       \* per request: the position of its handler
    srvData,     \* per request: the bytes its handler decodes
    srvRemote,   \* per request: how its own remote call ended
    srvResp,     \* per request: the response written
    files,       \* the files under uploads/: name -> content
    uploadsDir   \* whether the directory uploads/ exists

srvVars == <<srvReq, srvPc, srvData, srvRemote, srvResp, files, uploadsDir>>

VARIABLES
    hdlBody,     \* the request body: whether it decodes, and the batch it decodes to
    hdlPc,       \* the position of the handler of /analyze/logs or /analyze/performance
    hdlResp      \* the responses written to the client, in order

hdlVars == <<hdlBody, hdlPc, hdlResp>>

VARIABLES
    netElapsed,  \* seconds since client.Do started
    netCause     \* the err of client.Do or io.ReadAll, "" while there is none

netVars == <<netElapsed, netCause>>

VARIABLES
    csvLogs,     \* the batch passed to ConvertToCSV
    csvNext,     \* number of entries the row loop has written
    csvPending,  \* the characters held by the csv.Writer, not yet flushed
    csvBuffer,   \* the characters in the bytes.Buffer
    csvResult,   \* what ConvertToCSV returns
    csvPc        \* the position in ConvertToCSV

csvVars == <<csvLogs, csvNext, csvPending, csvBuffer, csvResult, csvPc>>

extVars == <<hdlVars, netVars, csvVars>>

vars == <<aggVars, cleanVars, apiVars, srvVars, extVars>>

-----------------------------------------------------------------------------
(* Bounds of the model.                                                    *)

\* Longest batch of log entries.
MaxBatch == 3

\* Width in bits of the model's int64 (TLC's own integers have 32 bits).
IntBits == 12

\* Doublings of the 20-character timestamp that give the long timestamp.
LongDoublings == 9

\* Longest text given to cleanJSONResponse.
MaxText == 5

\* Number of requests handled concurrently.
NumRequests == 2

\* Largest number of entries in a batch given to ConvertToCSV.
MaxRows == 2

-----------------------------------------------------------------------------
(* Program constants.                                                      *)

chunkSize == 8000

\* if log.Status >= 400
ErrorStatus == 400

\* log.Duration > 1000
SlowDuration == 1000

-----------------------------------------------------------------------------
(* int64 arithmetic.                                                       *)

Pow2(n) == 2 ^ n

MaxInt64 == Pow2(IntBits - 1) - 1

MinInt64 == -Pow2(IntBits - 1)

\* Two's-complement wrap-around of an int64 result.
Wrap64(x) == ((x + Pow2(IntBits - 1)) % Pow2(IntBits)) - Pow2(IntBits - 1)

\* stats.totalTime += log.Duration
Add64(a, b) == Wrap64(a + b)

\* Go's integer division of a by b > 0: truncation toward zero.
Quo64(a, b) == IF a >= 0 THEN a \div b ELSE -((-a) \div b)

-----------------------------------------------------------------------------
(* Log entries.                                                            *)

RECURSIVE Doubled(_, _)
Doubled(s, n) == IF n = 0 THEN s ELSE Doubled(s \o s, n - 1)

LongTimestamp == Doubled("2024-04-06T10:00:00Z", LongDoublings)

Entry(ts, lv, p, d, st) ==
    [Timestamp |-> ts, Level |-> lv, Message |-> "m", Path |-> p,
     Method |-> "GET", Duration |-> d, Status |-> st]

\* The entries a batch is drawn from: both paths, the extreme, negative and
\* zero durations, and the four ways of being notable with their boundary
\* values.
LogEntries ==
    { Entry("T1", "info", "", -1, 200),
      Entry("T1", "info", "/a", MinInt64, 200),
      Entry("T1", "info", "/a", -1, 200),
      Entry("T1", "info", "/a", 0, 200),
      Entry("T1", "info", "/a", MaxInt64, 200),
      Entry("T2", "info", "/a", SlowDuration, ErrorStatus - 1),
      Entry("T2", "info", "", SlowDuration, ErrorStatus),
      Entry("T2", "error", "/a", SlowDuration, ErrorStatus - 1),
      Entry("T2", "warning", "/a", SlowDuration, ErrorStatus - 1),
      Entry("T2", "info", "/a", SlowDuration + 1, ErrorStatus - 1) }

\* The entries of the batches that give long prompts: one with a timestamp
\* longer than chunkSize, one notable and one that is not.
LongEntries ==
    { Entry(LongTimestamp, "error", "/b", 1, 200),
      Entry("T2", "info", "", SlowDuration, ErrorStatus),
      Entry("T1", "info", "/a", 0, 200) }

RECURSIVE SeqsUpTo(_, _)
SeqsUpTo(S, n) ==
    IF n = 0 THEN {<<>>}
    ELSE LET shorter == SeqsUpTo(S, n - 1)
         IN  shorter \cup { Append(s, e) : s \in { t \in shorter : Len(t) = n - 1 }, e \in S }

Batches == SeqsUpTo(LogEntries, MaxBatch)

LongBatches == SeqsUpTo(LongEntries, MaxBatch)

-----------------------------------------------------------------------------
(* The grouping loops.                                                     *)

\* The zero value of AnalyzeLogs' statistics struct.
ZeroLogStats == [count |-> 0, totalTime |-> 0, errors |-> 0]

\* The zero value of AnalyzePerformance's statistics struct.
ZeroPerfStats == [count |-> 0, totalTime |-> 0, maxTime |-> 0, minTime |-> 0, errors |-> 0]

\* pathStats[path]: the stored struct, or the zero value for a missing key.
MapGet(m, k, zero) == IF k \in DOMAIN m THEN m[k] ELSE zero

\* pathStats[path] = stats
MapPut(m, k, v) == [x \in DOMAIN m \cup {k} |-> IF x = k THEN v ELSE m[x]]

\* A bug: the comparison written as status > 400.
IsErrorStatusStrict(status) == status > ErrorStatus

IsErrorStatus(status) == status >= ErrorStatus

\* A bug: count++ moved into the branch of the error statuses.
LogStatsUpdateCountErrors(stats, log) ==
    [count     |-> IF IsErrorStatus(log.Status) THEN stats.count + 1 ELSE stats.count,
     totalTime |-> Add64(stats.totalTime, log.Duration),
     errors    |-> IF IsErrorStatus(log.Status) THEN stats.errors + 1 ELSE stats.errors]

\* One iteration of AnalyzeLogs' loop on the statistics of the entry's path.
LogStatsUpdate(stats, log) ==
    [count     |-> stats.count + 1,
     totalTime |-> Add64(stats.totalTime, log.Duration),
     errors    |-> IF IsErrorStatus(log.Status) THEN stats.errors + 1 ELSE stats.errors]

\* A bug: no first-observation branch, so minTime and maxTime start from the
\* zero value of the struct.
PerfStatsUpdateNoFirst(stats, log) ==
    [count     |-> stats.count + 1,
     totalTime |-> Add64(stats.totalTime, log.Duration),
     maxTime   |-> IF log.Duration > stats.maxTime THEN log.Duration ELSE stats.maxTime,
     minTime   |-> IF log.Duration < stats.minTime THEN log.Duration ELSE stats.minTime,
     errors    |-> IF IsErrorStatus(log.Status) THEN stats.errors + 1 ELSE stats.errors]

\* One iteration of AnalyzePerformance's loop on the statistics of the path.
PerfStatsUpdate(stats, log) ==
    LET minTime == IF stats.count = 0 THEN log.Duration
                   ELSE IF log.Duration < stats.minTime THEN log.Duration
                   ELSE stats.minTime
        maxTime == IF stats.count = 0 THEN log.Duration
                   ELSE IF log.Duration > stats.maxTime THEN log.Duration
                   ELSE stats.maxTime
    IN  [count     |-> stats.count + 1,
         totalTime |-> Add64(stats.totalTime, log.Duration),
         maxTime   |-> maxTime,
         minTime   |-> minTime,
         errors    |-> IF IsErrorStatus(log.Status) THEN stats.errors + 1 ELSE stats.errors]

\* A bug: the slow threshold written as Duration >= 1000.
IsNotableFromThreshold(log) ==
    \/ log.Status >= ErrorStatus
    \/ log.Level = "error"
    \/ log.Level = "warning"
    \/ log.Duration >= SlowDuration

\* The important events: errors, warnings, slow requests.
IsNotable(log) ==
    \/ log.Status >= ErrorStatus
    \/ log.Level = "error"
    \/ log.Level = "warning"
    \/ log.Duration > SlowDuration

\* fmt.Sprintf("- %s [%s] %s (Duration: %dms, Status: %d)\n", ...)
NotableLine(log) ==
    "- " \o log.Timestamp \o " [" \o log.Level \o "] " \o log.Path
         \o " (Duration: " \o ToString(log.Duration) \o "ms, Status: "
         \o ToString(log.Status) \o ")\n"

-----------------------------------------------------------------------------
(* cleanJSONResponse.  A text is a sequence of characters, each a string.   *)

\* The backquote character (a TLA+ string literal cannot hold one).
Backtick == "BQ"

\* strings.ReplaceAll(s, old, new) for a non-empty old: the non-overlapping
\* occurrences of old, found from the left, are replaced.
RECURSIVE ReplaceAll(_, _, _)
ReplaceAll(s, old, new) ==
    IF Len(s) < Len(old) THEN s
    ELSE IF SubSeq(s, 1, Len(old)) = old
         THEN new \o ReplaceAll(SubSeq(s, Len(old) + 1, Len(s)), old, new)
         ELSE <<Head(s)>> \o ReplaceAll(Tail(s), old, new)

\* strings.Index(s, c): the 0-based index of the first c in s, or -1.
RECURSIVE IndexFrom(_, _, _)
IndexFrom(s, c, k) ==
    IF k > Len(s) THEN -1
    ELSE IF s[k] = c THEN k - 1
    ELSE IndexFrom(s, c, k + 1)

Index(s, c) == IndexFrom(s, c, 1)

\* strings.LastIndex(s, c): the 0-based index of the last c in s, or -1.
RECURSIVE LastIndexFrom(_, _, _)
LastIndexFrom(s, c, k) ==
    IF k < 1 THEN -1
    ELSE IF s[k] = c THEN k - 1
    ELSE LastIndexFrom(s, c, k - 1)

LastIndex(s, c) == LastIndexFrom(s, c, Len(s))

\* s[lo:hi] with 0-based bounds.
Slice(s, lo, hi) == SubSeq(s, lo + 1, hi)

\* A bug: the first test written as start > 0.
HasObjectAfterFirst(start, end) == start > 0 /\ end > start

\* start >= 0 && end > start
HasObject(start, end) == start >= 0 /\ end > start

cleanJSONResponse(response) ==
    LET r1    == ReplaceAll(response, <<Backtick>>, <<>>)
        r2    == ReplaceAll(r1, <<Backtick, Backtick, Backtick, "j", "s", "o", "n">>, <<>>)
        r3    == ReplaceAll(r2, <<Backtick, Backtick, Backtick>>, <<>>)
        start == Index(r3, "{")
        end   == LastIndex(r3, "}")
    IN  IF HasObject(start, end) THEN Slice(r3, start, end + 1) ELSE r3

\* json.Unmarshal of the cleaned text into AnalysisResult or
\* PerformanceAnalysis.  Of the texts over TextChars only "{}" is JSON; it
\* decodes to the result with every field left at its zero value.
JSONDecodes(text) == text = <<"{", "}">>

-----------------------------------------------------------------------------
(* callGeminiAPI.                                                          *)

\* A decoded JSON value (interface{}): a tag and, for a string, an array or
\* an object, its content.  An object is a record of its members.
JNull == [t |-> "null"]

JNumber == [t |-> "number"]

JString(s) == [t |-> "string", v |-> s]

JArray(elems) == [t |-> "array", v |-> elems]

JObject(members) == [t |-> "object", v |-> members]

\* A response body that is not JSON at all.
InvalidJSON == [t |-> "invalid"]

\* No body was read.
NoBody == [t |-> "none"]

\* An object without any member of the envelope: {"error": null}.
JOther == JObject([error |-> JNull])

\* v.([]interface{})
IsArray(v) == v.t = "array"

\* v.(map[string]interface{})
IsObject(v) == v.t = "object"

\* v.(string)
IsString(v) == v.t = "string"

\* m[key] of a map[string]interface{}: the member, or nil.
Member(obj, key) == IF key \in DOMAIN obj.v THEN obj.v[key] ELSE JNull

\* The three ways callGeminiAPI ends.
ReturnText(text) ==
    [kind |-> "text", text |-> text, msg |-> "", status |-> 0, body |-> NoBody]

ReturnError(msg, status, body) ==
    [kind |-> "error", text |-> <<>>, msg |-> msg, status |-> status, body |-> body]

\* The call has not ended.
NotReturned == [kind |-> "none", text |-> <<>>, msg |-> "", status |-> 0, body |-> NoBody]

\* A failed single-value type assertion: the goroutine panics.
Panic == [kind |-> "panic", text |-> <<>>, msg |-> "interface conversion",
          status |-> 0, body |-> NoBody]

\* resp.StatusCode != http.StatusOK
StatusOK == 200

\* A variant: every 2xx status taken as success.
IsAPIErrorNon2xx(status) == status < 200 \/ status > 299

IsAPIError(status) == status # StatusOK

\* json.Unmarshal(body, &result) into a map[string]interface{} fails unless
\* the body is a JSON object or null (null leaves the map nil).
UnmarshalFails(body) == ~(body.t \in {"object", "null"})

\* result[key] of the decoded map; a nil map has no members.
TopMember(body, key) == IF IsObject(body) THEN Member(body, key) ELSE JNull

\* The extraction of candidates[0].content.parts[0].text from a decoded body.
ExtractText(body) ==
    LET candidates == TopMember(body, "candidates")
    IN
    IF ~IsArray(candidates) \/ Len(candidates.v) = 0
    THEN ReturnError("no candidates in response", 0, body)
    ELSE IF ~IsObject(candidates.v[1]) THEN Panic
    ELSE LET content == Member(candidates.v[1], "content")
    IN
    IF ~IsObject(content)
    THEN ReturnError("invalid response format", 0, body)
    ELSE LET parts == Member(content, "parts")
    IN
    IF ~IsArray(parts) \/ Len(parts.v) = 0
    THEN ReturnError("no parts in response", 0, body)
    ELSE IF ~IsObject(parts.v[1]) THEN Panic
    ELSE LET text == Member(parts.v[1], "text")
    IN
    IF ~IsString(text)
    THEN ReturnError("invalid text format in response", 0, body)
    ELSE ReturnText(text.v)

\* callGeminiAPI from client.Do on: rep is what the network gives back.
callGeminiAPI(rep) ==
    IF rep.transport = "doError"
    THEN ReturnError("error making request", 0, NoBody)
    ELSE IF rep.transport = "readError"
    THEN ReturnError("error reading response body", 0, NoBody)
    ELSE IF IsAPIError(rep.status)
    THEN ReturnError("API error", rep.status, rep.body)
    ELSE IF UnmarshalFails(rep.body)
    THEN ReturnError("error parsing response", 0, NoBody)
    ELSE ExtractText(rep.body)

-----------------------------------------------------------------------------
(* Rendering of the prompt.                                                *)

\* fmt.Sprintf("%.1f", float64(errors) / float64(count) * 100): the rate in
\* tenths of a percent, rounded to the nearest (no count below 16 gives a
\* tie between two tenths).
RateTenths(errors, count) == (2000 * errors + count) \div (2 * count)

FormatRate(errors, count) ==
    ToString(RateTenths(errors, count) \div 10) \o "."
        \o ToString(RateTenths(errors, count) % 10)

\* avgTime := stats.totalTime / int64(stats.count)
AvgTime(stats) == Quo64(stats.totalTime, stats.count)

\* The line AnalyzeLogs writes for one path.
LogStatsLine(path, stats) ==
    <<"- " \o path \o ": " \o ToString(stats.count) \o " requests, avg time "
          \o ToString(AvgTime(stats)) \o "ms, error rate "
          \o FormatRate(stats.errors, stats.count) \o "%\n">>

\* The six strings AnalyzePerformance writes for one path.
PerfStatsLines(path, stats) ==
    <<"Endpoint: " \o path \o "\n",
      "- Requests: " \o ToString(stats.count) \o "\n",
      "- Avg Time: " \o ToString(AvgTime(stats)) \o "ms\n",
      "- Min Time: " \o ToString(stats.minTime) \o "ms\n",
      "- Max Time: " \o ToString(stats.maxTime) \o "ms\n",
      "- Error Rate: " \o FormatRate(stats.errors, stats.count) \o "%\n\n">>

LogSummaryHeader == "Log Summary:\n\n"

PerfSummaryHeader == "Performance Summary:\n\n"

PathStatisticsHeader == "\nPath Statistics:\n"

\* summary.String()
RECURSIVE BuilderString(_)
BuilderString(b) == IF b = <<>> THEN "" ELSE Head(b) \o BuilderString(Tail(b))

LogPromptTemplate ==
    "Analyze this log summary and provide insights. Return ONLY a JSON object with this exact structure (no markdown, no backticks):\n{\n    \"popular_pages\": [\"page1\", \"page2\"],\n    \"slow_pages\": [{\"path\": \"/example\", \"avg_duration\": 1000, \"request_count\": 10, \"error_rate\": 5.0}],\n    \"potential_issues\": [{\"type\": \"security\", \"description\": \"desc\", \"severity\": \"high\", \"path\": \"/example\"}],\n    \"insights\": [\"insight1\", \"insight2\"]\n}\n\nLog Summary:\n"

PerfPromptTemplate ==
    "Analyze this performance data and provide insights. Return ONLY a JSON object with this exact structure (no markdown, no backticks):\n{\n    \"slow_endpoints\": [{\"path\": \"/example\", \"avg_duration\": 1000, \"request_count\": 10, \"error_rate\": 5.0}],\n    \"performance_patterns\": [\"pattern1\", \"pattern2\"],\n    \"resource_issues\": [{\"type\": \"memory\", \"description\": \"High memory usage\", \"severity\": \"high\"}],\n    \"recommendations\": [\"recommendation1\", \"recommendation2\"]\n}\n\nPerformance Data:\n"

-----------------------------------------------------------------------------
(* Remote replies.                                                         *)

DoError == [transport |-> "doError", status |-> 0, body |-> NoBody]

ReadError(status) == [transport |-> "readError", status |-> status, body |-> NoBody]

Response(status, body) == [transport |-> "ok", status |-> status, body |-> body]

\* The envelope {"candidates":[{"content":{"parts":[{"text": text}]}}]}.
Envelope(text) ==
    JObject([candidates |-> JArray(<<
        JObject([content |-> JObject([parts |-> JArray(<<
            JObject([text |-> JString(text)]) >>)]) ]) >>)])

\* The replies given to a call of AnalyzeLogs or AnalyzePerformance: a
\* transport failure, a rate-limit status, a body without candidates, one
\* whose first candidate is null, a fenced and a bare "{}", and a text that
\* is no JSON.
AnalyzeReplies ==
    { DoError,
      Response(429, JOther),
      Response(StatusOK, JOther),
      Response(StatusOK, JObject([candidates |-> JArray(<<JNull>>)])),
      Response(StatusOK, Envelope(<<Backtick, "{", "}", Backtick>>)),
      Response(StatusOK, Envelope(<<"{", "}">>)),
      Response(StatusOK, Envelope(<<"a">>)) }

-----------------------------------------------------------------------------
(* One call of AnalyzeLogs or AnalyzePerformance.                          *)

NoResult == [kind |-> "none", msg |-> ""]

IdleClean == cleanIn = <<>> /\ cleanOut = <<>> /\ cleanPc = "idle"

IdleApi == apiReply = DoError /\ apiResult = NotReturned /\ apiPc = "idle"

IdleSrv ==
    /\ srvReq = <<>>
    /\ srvPc = <<>>
    /\ srvData = <<>>
    /\ srvRemote = <<>>
    /\ srvResp = <<>>
    /\ files = <<>>
    /\ uploadsDir = FALSE

NoBatch == [decodes |-> FALSE, logs |-> <<>>]

IdleHdl == hdlBody = NoBatch /\ hdlPc = "idle" /\ hdlResp = <<>>

IdleNet == netElapsed = 0 /\ netCause = ""

IdleCsv ==
    /\ csvLogs = <<>>
    /\ csvNext = 0
    /\ csvPending = <<>>
    /\ csvBuffer = <<>>
    /\ csvResult = NoResult
    /\ csvPc = "idle"

IdleExt == IdleHdl /\ IdleNet /\ IdleCsv

\* The state on entry to AnalyzeLogs or AnalyzePerformance with a batch of
\* the given set.
InitWith(batches) ==
    /\ kind \in {"logs", "performance"}
    /\ logs \in batches
    /\ i = 0
    /\ pathStats = <<>>
    /\ summary = IF kind = "logs" THEN <<LogSummaryHeader>> ELSE <<PerfSummaryHeader>>
    /\ rendered = {}
    /\ avgTimes = <<>>
    /\ prompt = ""
    /\ requests = <<>>
    /\ reply = DoError
    /\ result = NoResult
    /\ pc = "group"
    /\ IdleClean
    /\ IdleApi
    /\ IdleSrv
    /\ IdleExt

Init == InitWith(Batches)

InitLong == InitWith(LongBatches)

\* for _, log := range logs { ... } of AnalyzeLogs, one iteration.
AnalyzeLogsStep ==
    /\ pc = "group"
    /\ kind = "logs"
    /\ i < Len(logs)
    /\ LET log == logs[i + 1]
           stats == MapGet(pathStats, log.Path, ZeroLogStats)
       IN  /\ pathStats' = MapPut(pathStats, log.Path, LogStatsUpdate(stats, log))
           /\ summary' = IF IsNotable(log) THEN Append(summary, NotableLine(log))
                         ELSE summary
    /\ i' = i + 1
    /\ UNCHANGED <<kind, logs, rendered, avgTimes, prompt, requests, reply, result, pc>>
    /\ UNCHANGED <<cleanVars, apiVars, srvVars, extVars>>

\* for _, log := range logs { ... } of AnalyzePerformance, one iteration.
AnalyzePerformanceStep ==
    /\ pc = "group"
    /\ kind = "performance"
    /\ i < Len(logs)
    /\ LET log == logs[i + 1]
           stats == MapGet(pathStats, log.Path, ZeroPerfStats)
       IN  pathStats' = MapPut(pathStats, log.Path, PerfStatsUpdate(stats, log))
    /\ i' = i + 1
    /\ UNCHANGED <<kind, logs, summary, rendered, avgTimes, prompt, requests, reply, result, pc>>
    /\ UNCHANGED <<cleanVars, apiVars, srvVars, extVars>>

\* The grouping loop ends; AnalyzeLogs writes the statistics header.
GroupingDone ==
    /\ pc = "group"
    /\ i = Len(logs)
    /\ summary' = IF kind = "logs" THEN Append(summary, PathStatisticsHeader) ELSE summary
    /\ pc' = "stats"
    /\ UNCHANGED <<kind, logs, i, pathStats, rendered, avgTimes, prompt, requests, reply, result>>
    /\ UNCHANGED <<cleanVars, apiVars, srvVars, extVars>>

\* for path, stats := range pathStats { ... }, one iteration: the map is
\* ranged over in an unspecified order.
StatisticsStep ==
    /\ pc = "stats"
    /\ \E path \in DOMAIN pathStats \ rendered :
         LET stats == pathStats[path]
         IN  /\ avgTimes' = MapPut(avgTimes, path, AvgTime(stats))
             /\ summary' = summary \o (IF kind = "logs" THEN LogStatsLine(path, stats)
                                       ELSE PerfStatsLines(path, stats))
             /\ rendered' = rendered \cup {path}
    /\ UNCHANGED <<kind, logs, i, pathStats, prompt, requests, reply, result, pc>>
    /\ UNCHANGED <<cleanVars, apiVars, srvVars, extVars>>

\* prompt := fmt.Sprintf(template, summary.String())
BuildPrompt ==
    /\ pc = "stats"
    /\ rendered = DOMAIN pathStats
    /\ prompt' = (IF kind = "logs" THEN LogPromptTemplate ELSE PerfPromptTemplate)
                     \o BuilderString(summary)
    /\ pc' = "call"
    /\ UNCHANGED <<kind, logs, i, pathStats, summary, rendered, avgTimes, requests, reply, result>>
    /\ UNCHANGED <<cleanVars, apiVars, srvVars, extVars>>

\* A bug: a failed call is followed by a second attempt.
CallGeminiRetry ==
    /\ pc = "call"
    /\ \E rep \in AnalyzeReplies :
         LET r == callGeminiAPI(rep)
         IN  /\ reply' = rep
             /\ IF r.kind = "text"
                THEN /\ requests' = Append(requests, prompt)
                     /\ pc' = "decode"
                     /\ cleanIn' = r.text
                     /\ UNCHANGED result
                ELSE /\ requests' = Append(Append(requests, prompt), prompt)
                     /\ pc' = "done"
                     /\ result' = [kind |-> r.kind, msg |-> "error generating analysis"]
                     /\ UNCHANGED cleanIn
    /\ UNCHANGED <<kind, logs, i, pathStats, summary, rendered, avgTimes, prompt>>
    /\ UNCHANGED <<cleanOut, cleanPc, apiVars, srvVars, extVars>>

\* response, err := s.callGeminiAPI(ctx, prompt): one request carrying the
\* whole prompt; on an error the analysis returns it.
CallGemini ==
    /\ pc = "call"
    /\ \E rep \in AnalyzeReplies :
         LET r == callGeminiAPI(rep)
         IN  /\ requests' = Append(requests, prompt)
             /\ reply' = rep
             /\ IF r.kind = "text"
                THEN /\ pc' = "decode"
                     /\ cleanIn' = r.text
                     /\ UNCHANGED result
                ELSE /\ pc' = "done"
                     /\ result' = [kind |-> r.kind, msg |-> "error generating analysis"]
                     /\ UNCHANGED cleanIn
    /\ UNCHANGED <<kind, logs, i, pathStats, summary, rendered, avgTimes, prompt>>
    /\ UNCHANGED <<cleanOut, cleanPc, apiVars, srvVars, extVars>>

\* cleanedResponse := cleanJSONResponse(response); json.Unmarshal(...)
DecodeResult ==
    /\ pc = "decode"
    /\ cleanOut' = cleanJSONResponse(cleanIn)
    /\ result' = IF JSONDecodes(cleanOut') THEN [kind |-> "ok", msg |-> ""]
                 ELSE [kind |-> "error", msg |-> "error parsing analysis result"]
    /\ pc' = "done"
    /\ UNCHANGED <<kind, logs, i, pathStats, summary, rendered, avgTimes, prompt, requests, reply>>
    /\ UNCHANGED <<cleanIn, cleanPc, apiVars, srvVars, extVars>>

Next ==
    \/ AnalyzeLogsStep
    \/ AnalyzePerformanceStep
    \/ GroupingDone
    \/ StatisticsStep
    \/ BuildPrompt
    \/ CallGemini
    \/ DecodeResult

Spec == Init /\ [][Next]_vars

\* The same call on the batches that give long prompts.
SpecLong == InitLong /\ [][Next]_vars

-----------------------------------------------------------------------------
(* Properties of the grouping loops.                                       *)

\* The entries the grouping loop has consumed.
Processed == SubSeq(logs, 1, i)

\* The positions of the consumed entries with the given path.
ProcessedAt(path) == { k \in 1..i : logs[k].Path = path }

RECURSIVE SumOfCounts(_, _)
SumOfCounts(m, keys) ==
    IF keys = {} THEN 0
    ELSE LET k == CHOOSE x \in keys : TRUE
         IN  m[k].count + SumOfCounts(m, keys \ {k})

\* C1: once the grouping loop of AnalyzeLogs or AnalyzePerformance has
\* consumed a whole non-empty batch, the counts of all keys of pathStats add
\* up to the number of entries of the batch, and the entries with the empty
\* path are counted under the empty key.
C1_CountsSumToBatchLength ==
    (i = Len(logs) /\ Len(logs) > 0) =>
        /\ SumOfCounts(pathStats, DOMAIN pathStats) = Len(logs)
        /\ ProcessedAt("") # {} =>
             /\ "" \in DOMAIN pathStats
             /\ pathStats[""].count = Cardinality(ProcessedAt(""))

\* C1 witness: AnalyzePerformance has consumed a batch of three entries, two
\* of them with the empty path.
C1_Witness ==
    /\ kind = "performance"
    /\ Len(logs) = 3
    /\ i = 3
    /\ Cardinality(ProcessedAt("")) = 2
    /\ DOMAIN pathStats = {"", "/a"}

\* C2: in AnalyzePerformance, after every prefix of the batch, minTime and
\* maxTime of every path bound the duration of every consumed entry of the
\* path, and each is the duration of one of them.
C2_MinMaxBoundDurations ==
    kind = "performance" =>
        \A path \in DOMAIN pathStats :
            /\ \A k \in ProcessedAt(path) :
                 /\ pathStats[path].minTime <= logs[k].Duration
                 /\ logs[k].Duration <= pathStats[path].maxTime
            /\ \E k \in ProcessedAt(path) : logs[k].Duration = pathStats[path].minTime
            /\ \E k \in ProcessedAt(path) : logs[k].Duration = pathStats[path].maxTime

\* C2 witness: three entries of one path, a zero duration first, then a
\* higher and a negative one in either order, so that both extremes were set
\* after the first observation.
C2_Witness ==
    /\ kind = "performance"
    /\ i = 3
    /\ Cardinality(ProcessedAt("/a")) = 3
    /\ logs[1].Duration = 0
    /\ pathStats["/a"].minTime < 0
    /\ pathStats["/a"].maxTime > 0

\* C3: in AnalyzePerformance the average rendered for a path lies between
\* the minTime and the maxTime of the path, whatever the durations.
C3_AvgBetweenMinAndMax ==
    kind = "performance" =>
        \A path \in DOMAIN avgTimes :
            /\ pathStats[path].minTime <= avgTimes[path]
            /\ avgTimes[path] <= pathStats[path].maxTime

\* C4: in both analyses, after every step of the grouping loop, errors of a
\* path is the number of consumed entries of the path with a status of 400 or
\* more (399 is not counted, 400 is), so that 0 <= errors <= count.
C4_ErrorsCountStatusFrom400 ==
    \A path \in DOMAIN pathStats :
        /\ pathStats[path].errors
             = Cardinality({ k \in ProcessedAt(path) : logs[k].Status > 399 })
        /\ 0 <= pathStats[path].errors
        /\ pathStats[path].errors <= pathStats[path].count

\* C4 witness: AnalyzeLogs has consumed an entry of status 400 and one of
\* status 200 on one path and an entry of status 399 on the other.
C4_Witness ==
    /\ kind = "logs"
    /\ i = 3
    /\ DOMAIN pathStats = {"", "/a"}
    /\ pathStats[""].count = 2
    /\ pathStats[""].errors = 1
    /\ \E k \in ProcessedAt("") : logs[k].Status = 400
    /\ \E k \in ProcessedAt("/a") : logs[k].Status = 399
    /\ pathStats["/a"].errors = 0

\* The notable-events section of the summary: what follows its header, up to
\* the header of the path statistics.
NotableSection(b) ==
    IF \E k \in 1..Len(b) : b[k] = PathStatisticsHeader
    THEN SubSeq(b, 2, (CHOOSE k \in 1..Len(b) : b[k] = PathStatisticsHeader) - 1)
    ELSE Tail(b)

\* The entries the notable-events section is to list.
C5_Listed(log) ==
    \/ log.Status >= 400
    \/ log.Level \in {"error", "warning"}
    \/ log.Duration > 1000

\* C5: the notable-events section of AnalyzeLogs holds exactly one line for
\* each consumed entry with status >= 400, level "error" or "warning", or
\* duration > 1000, none for any other entry, in the order of the batch.
C5_NotableSectionListsExactly ==
    kind = "logs" =>
        LET listed == SelectSeq(Processed, C5_Listed)
        IN  NotableSection(summary) = [k \in 1..Len(listed) |-> NotableLine(listed[k])]

\* C5 witness: the prompt is built from a batch whose second entry has
\* duration 1000, status 399 and level "info" and is not listed, between an
\* entry listed for its duration of 1001 alone and one listed for its level
\* "warning" alone.
C5_Witness ==
    /\ kind = "logs"
    /\ pc = "call"
    /\ Len(logs) = 3
    /\ logs[1] = Entry("T2", "info", "/a", 1001, 399)
    /\ logs[2] = Entry("T2", "info", "/a", 1000, 399)
    /\ logs[3] = Entry("T2", "warning", "/a", 1000, 399)
    /\ Len(NotableSection(summary)) = 2

-----------------------------------------------------------------------------
(* cleanJSONResponse on bounded texts.                                     *)

TextChars == {Backtick, "{", "}", "a"}

Texts == SeqsUpTo(TextChars, MaxText)

IdleAgg ==
    /\ kind = "logs"
    /\ logs = <<>>
    /\ i = 0
    /\ pathStats = <<>>
    /\ summary = <<>>
    /\ rendered = {}
    /\ avgTimes = <<>>
    /\ prompt = ""
    /\ requests = <<>>
    /\ reply = DoError
    /\ result = NoResult
    /\ pc = "idle"

InitClean ==
    /\ cleanIn \in Texts
    /\ cleanOut = <<>>
    /\ cleanPc = "call"
    /\ IdleAgg
    /\ IdleApi
    /\ IdleSrv
    /\ IdleExt

CleanCall ==
    /\ cleanPc = "call"
    /\ cleanOut' = cleanJSONResponse(cleanIn)
    /\ cleanPc' = "done"
    /\ UNCHANGED <<cleanIn, aggVars, apiVars, srvVars, extVars>>

NextClean == CleanCall

SpecClean == InitClean /\ [][NextClean]_vars

C6_NotBacktick(c) == c # Backtick

\* The text without its backquotes.
C6_Stripped == SelectSeq(cleanIn, C6_NotBacktick)

C6_Opens == { k \in 1..Len(C6_Stripped) : C6_Stripped[k] = "{" }

C6_Closes == { k \in 1..Len(C6_Stripped) : C6_Stripped[k] = "}" }

\* C6: cleanJSONResponse returns, of the text T without its backquotes, the
\* part from the first "{" to the last "}" when T has a "{" and a "}" after
\* it, and T in full otherwise; a text without braces and backquotes comes
\* back unchanged, and the result holds no backquote.
C6_CleanReturnsBracedPart ==
    cleanPc = "done" =>
        /\ IF \E a \in C6_Opens, b \in C6_Closes : a < b
           THEN cleanOut = SubSeq(C6_Stripped,
                                  CHOOSE a \in C6_Opens : \A x \in C6_Opens : a <= x,
                                  CHOOSE b \in C6_Closes : \A x \in C6_Closes : x <= b)
           ELSE cleanOut = C6_Stripped
        /\ (\A k \in 1..Len(cleanIn) : cleanIn[k] \notin {Backtick, "{", "}"})
               => cleanOut = cleanIn
        /\ \A k \in 1..Len(cleanOut) : cleanOut[k] # Backtick

\* C6 witness: a text with a "}" before its first "{", a backquote and
\* a braced part has been cleaned to the braced part.
C6_Witness ==
    /\ cleanPc = "done"
    /\ cleanIn = <<"}", Backtick, "{", "a", "}">>
    /\ cleanOut = <<"{", "a", "}">>

-----------------------------------------------------------------------------
(* callGeminiAPI on the modelled replies.                                  *)

ApiStatuses == {200, 201, 204, 299, 300, 404, 429, 500}

ApiTexts == { <<"{", "}">>, <<"a">> }

\* What the member "text" may be: a string, a number, null.
TextValues == { JString(t) : t \in ApiTexts } \cup {JNumber, JNull}

\* What parts[0] may be: an object with or without "text", or no object.
PartValues == { JObject([text |-> v]) : v \in TextValues } \cup {JOther, JNumber, JNull}

\* What "parts" may be: an array with parts[0], an empty one, or no array.
PartsValues == { JArray(<<p>>) : p \in PartValues } \cup {JArray(<<>>), JNumber}

\* What "content" may be: an object with or without "parts", or no object.
ContentValues == { JObject([parts |-> v]) : v \in PartsValues } \cup {JOther, JNumber}

\* What candidates[0] may be: an object with or without "content", or none.
CandidateValues ==
    { JObject([content |-> v]) : v \in ContentValues } \cup {JOther, JNumber, JNull}

\* What "candidates" may be: an array of one or two candidates, an empty
\* array, or no array.
CandidatesValues ==
    { JArray(<<c>>) : c \in CandidateValues }
    \cup { JArray(<<c, JNumber>>) : c \in { JObject([content |-> JOther]) } }
    \cup {JArray(<<>>), JNumber}

ApiBodies ==
    { JObject([candidates |-> v]) : v \in CandidatesValues }
    \cup {JOther, JNull, JArray(<<>>), InvalidJSON}

ApiReplies ==
    {DoError}
    \cup { ReadError(st) : st \in ApiStatuses }
    \cup { Response(st, b) : st \in ApiStatuses, b \in ApiBodies }

InitApi ==
    /\ apiReply \in ApiReplies
    /\ apiResult = NotReturned
    /\ apiPc = "call"
    /\ IdleAgg
    /\ IdleClean
    /\ IdleSrv
    /\ IdleExt

ApiCall ==
    /\ apiPc = "call"
    /\ apiResult' = callGeminiAPI(apiReply)
    /\ apiPc' = "done"
    /\ UNCHANGED <<apiReply, aggVars, cleanVars, srvVars, extVars>>

NextApi == ApiCall

SpecApi == InitApi /\ [][NextApi]_vars

\* The call ended with the remote-API error of the reply's status and body.
C7_IsRemoteAPIError ==
    /\ apiResult.kind = "error"
    /\ apiResult.msg = "API error"
    /\ apiResult.status = apiReply.status
    /\ apiResult.body = apiReply.body

\* C7 as claimed: a response whose body was read ends callGeminiAPI with the
\* remote-API error exactly when its status lies outside 200..299.
C7_ErrorExactlyWhenNon2xx ==
    (apiPc = "done" /\ apiReply.transport = "ok") =>
        (C7_IsRemoteAPIError <=> apiReply.status \notin 200..299)

\* C7 as amended: a response whose body was read ends callGeminiAPI with the
\* remote-API error, carrying its status and body, exactly when its status
\* is not 200; the body is decoded for status 200 alone.
C7_ErrorExactlyWhenNot200 ==
    (apiPc = "done" /\ apiReply.transport = "ok") =>
        /\ C7_IsRemoteAPIError <=> apiReply.status # 200
        /\ apiReply.status # 200 => apiResult.kind = "error"

\* C7 witness: a response of status 429 has ended the call with the
\* remote-API error carrying 429 and the body.
C7_Witness ==
    /\ apiPc = "done"
    /\ apiReply.transport = "ok"
    /\ apiReply.status = 429
    /\ apiReply.body = JOther
    /\ C7_IsRemoteAPIError

\* The body has a string at candidates[0].content.parts[0].text.
C8_HasText(body) ==
    /\ body.t = "object"
    /\ "candidates" \in DOMAIN body.v
    /\ body.v.candidates.t = "array"
    /\ Len(body.v.candidates.v) > 0
    /\ LET c == body.v.candidates.v[1]
       IN  /\ c.t = "object"
           /\ "content" \in DOMAIN c.v
           /\ c.v.content.t = "object"
           /\ "parts" \in DOMAIN c.v.content.v
           /\ c.v.content.v.parts.t = "array"
           /\ Len(c.v.content.v.parts.v) > 0
           /\ LET q == c.v.content.v.parts.v[1]
              IN  /\ q.t = "object"
                  /\ "text" \in DOMAIN q.v
                  /\ q.v.text.t = "string"

\* C8: a response of status 200 whose body is decoded (a JSON object, or
\* null) and has no string at candidates[0].content.parts[0].text ends
\* callGeminiAPI with an error value that carries the body: no panic, no
\* text.
C8_MalformedBodyGivesError ==
    (/\ apiPc = "done"
     /\ apiReply.transport = "ok"
     /\ apiReply.status = 200
     /\ apiReply.body.t \in {"object", "null"}
     /\ ~C8_HasText(apiReply.body)) =>
        /\ apiResult.kind = "error"
        /\ apiResult.body = apiReply.body

-----------------------------------------------------------------------------
(* The HTTP handlers of main.go, run concurrently.                         *)

Requests == 1..NumRequests

\* Request bodies and uploaded files, as sequences of blocks of bytes: two
\* JSON arrays of log entries of different lengths, and one that is no JSON.
BodyA == <<"a1", "a2">>

BodyB == <<"b1">>

BodyBad == <<"x1">>

Bodies == {BodyA, BodyB, BodyBad}

FileNames == {"f.json", "g.json"}

\* json.Unmarshal(data, &logs) and c.BindJSON(&logs) succeed.
DecodesToLogs(data) == data \in {BodyA, BodyB}

RequestInputs ==
    [endpoint : {"/upload"}, name : FileNames, body : Bodies]
    \cup [endpoint : {"/analyze/logs", "/analyze/performance", "/convert/to-csv"},
          name : {""}, body : Bodies]

NoResponse == [code |-> 0, of |-> <<>>]

\* c.JSON(status, ...) or c.Data(...): the status and, for a 200, the bytes
\* the returned analysis or CSV was computed from.
Respond(code, of) == [code |-> code, of |-> of]

InitSrv ==
    /\ srvReq \in [Requests -> RequestInputs]
    /\ srvPc = [r \in Requests |-> "start"]
    /\ srvData = [r \in Requests |-> <<>>]
    /\ srvRemote = [r \in Requests |-> "none"]
    /\ srvResp = [r \in Requests |-> NoResponse]
    /\ files = <<>>
    /\ uploadsDir = FALSE
    /\ IdleAgg
    /\ IdleClean
    /\ IdleApi
    /\ IdleExt

\* filename := filepath.Join("uploads", file.Filename)
UploadPath(r) == srvReq[r].name

\* /upload: c.FormFile("file") and os.MkdirAll("uploads", 0755).
UploadMkdir(r) ==
    /\ srvReq[r].endpoint = "/upload"
    /\ srvPc[r] = "start"
    /\ uploadsDir' = TRUE
    /\ srvPc' = [srvPc EXCEPT ![r] = "create"]
    /\ UNCHANGED <<srvReq, srvData, srvRemote, srvResp, files>>
    /\ UNCHANGED <<aggVars, cleanVars, apiVars, extVars>>

\* /upload: c.SaveUploadedFile, os.Create(dst): the file is created or
\* truncated.
UploadCreate(r) ==
    /\ srvPc[r] = "create"
    /\ files' = MapPut(files, UploadPath(r), <<>>)
    /\ srvPc' = [srvPc EXCEPT ![r] = "copy"]
    /\ UNCHANGED <<srvReq, srvData, srvRemote, srvResp, uploadsDir>>
    /\ UNCHANGED <<aggVars, cleanVars, apiVars, extVars>>

\* A write of data at offset 0 of a file of the given content.
WriteAtStart(content, data) == data \o SubSeq(content, Len(data) + 1, Len(content))

\* /upload: c.SaveUploadedFile, io.Copy(out, src): the upload is written from
\* the start of the file.
UploadCopy(r) ==
    /\ srvPc[r] = "copy"
    /\ files' = [files EXCEPT ![UploadPath(r)] = WriteAtStart(@, srvReq[r].body)]
    /\ srvPc' = [srvPc EXCEPT ![r] = "read"]
    /\ UNCHANGED <<srvReq, srvData, srvRemote, srvResp, uploadsDir>>
    /\ UNCHANGED <<aggVars, cleanVars, apiVars, extVars>>

\* /upload: data, err := os.ReadFile(filename)
UploadReadFile(r) ==
    /\ srvPc[r] = "read"
    /\ srvData' = [srvData EXCEPT ![r] = files[UploadPath(r)]]
    /\ srvPc' = [srvPc EXCEPT ![r] = "analyze"]
    /\ UNCHANGED <<srvReq, srvRemote, srvResp, files, uploadsDir>>
    /\ UNCHANGED <<aggVars, cleanVars, apiVars, extVars>>

\* /analyze/logs, /analyze/performance, /convert/to-csv: c.BindJSON(&logs)
\* reads the request's own body.
BindJSON(r) ==
    /\ srvReq[r].endpoint # "/upload"
    /\ srvPc[r] = "start"
    /\ srvData' = [srvData EXCEPT ![r] = srvReq[r].body]
    /\ srvPc' = [srvPc EXCEPT ![r] = IF srvReq[r].endpoint = "/convert/to-csv"
                                     THEN "convert" ELSE "analyze"]
    /\ UNCHANGED <<srvReq, srvRemote, srvResp, files, uploadsDir>>
    /\ UNCHANGED <<aggVars, cleanVars, apiVars, extVars>>

\* The rest of an analysing handler: the data is decoded (400 if that
\* fails), AnalyzeLogs or AnalyzePerformance runs with the request's own
\* remote call (500 if it fails), and the analysis is returned.
AnalyzeAndRespond(r) ==
    /\ srvPc[r] = "analyze"
    /\ IF ~DecodesToLogs(srvData[r])
       THEN /\ srvResp' = [srvResp EXCEPT ![r] = Respond(400, <<>>)]
            /\ UNCHANGED srvRemote
       ELSE \E ok \in BOOLEAN :
              /\ srvRemote' = [srvRemote EXCEPT ![r] = IF ok THEN "ok" ELSE "failed"]
              /\ srvResp' = [srvResp EXCEPT ![r] =
                                IF ok THEN Respond(200, srvData[r]) ELSE Respond(500, <<>>)]
    /\ srvPc' = [srvPc EXCEPT ![r] = "done"]
    /\ UNCHANGED <<srvReq, srvData, files, uploadsDir>>
    /\ UNCHANGED <<aggVars, cleanVars, apiVars, extVars>>

\* The rest of /convert/to-csv: 400 if the body did not decode, else the CSV
\* of the decoded entries.
ConvertAndRespond(r) ==
    /\ srvPc[r] = "convert"
    /\ srvResp' = [srvResp EXCEPT ![r] =
                      IF DecodesToLogs(srvData[r]) THEN Respond(200, srvData[r])
                      ELSE Respond(400, <<>>)]
    /\ srvPc' = [srvPc EXCEPT ![r] = "done"]
    /\ UNCHANGED <<srvReq, srvData, srvRemote, files, uploadsDir>>
    /\ UNCHANGED <<aggVars, cleanVars, apiVars, extVars>>

NextSrv ==
    \E r \in Requests :
        \/ UploadMkdir(r)
        \/ UploadCreate(r)
        \/ UploadCopy(r)
        \/ UploadReadFile(r)
        \/ BindJSON(r)
        \/ AnalyzeAndRespond(r)
        \/ ConvertAndRespond(r)

SpecSrv == InitSrv /\ [][NextSrv]_vars

\* The response a request gets when it is handled alone.
C9_OwnResponse(r) ==
    IF ~DecodesToLogs(srvReq[r].body) THEN Respond(400, <<>>)
    ELSE IF srvRemote[r] = "failed" THEN Respond(500, <<>>)
    ELSE Respond(200, srvReq[r].body)

\* C9: in every interleaving of concurrently handled requests, the response
\* of each request is the one its own input (and its own remote reply) gives:
\* no request reads what another one wrote, the uploaded file included.
C9_ResponseFromOwnInput ==
    \A r \in Requests : srvPc[r] = "done" => srvResp[r] = C9_OwnResponse(r)

-----------------------------------------------------------------------------
(* The handlers of POST /analyze/logs and POST /analyze/performance.       *)

StatusBadRequest == 400

StatusInternalServerError == 500

\* A response: its status code and the key of its JSON body ("" when the
\* response has no body).
HandlerResponse(code, key) == [code |-> code, key |-> key]

\* The request bodies: one that c.BindJSON rejects, and one per batch.
HandlerBodies == {NoBatch} \cup { [decodes |-> TRUE, logs |-> b] : b \in Batches }

\* A request has arrived at one of the two endpoints.
InitHandler ==
    /\ kind \in {"logs", "performance"}
    /\ hdlBody \in HandlerBodies
    /\ hdlPc = "bind"
    /\ hdlResp = <<>>
    /\ logs = <<>>
    /\ i = 0
    /\ pathStats = <<>>
    /\ summary = <<>>
    /\ rendered = {}
    /\ avgTimes = <<>>
    /\ prompt = ""
    /\ requests = <<>>
    /\ reply = DoError
    /\ result = NoResult
    /\ pc = "idle"
    /\ IdleClean
    /\ IdleApi
    /\ IdleSrv
    /\ IdleNet
    /\ IdleCsv

\* if err := c.BindJSON(&logs); err != nil { c.JSON(400, ...); return }
HandlerBindFails ==
    /\ hdlPc = "bind"
    /\ ~hdlBody.decodes
    /\ hdlResp' = Append(hdlResp, HandlerResponse(StatusBadRequest, "error"))
    /\ hdlPc' = "done"
    /\ UNCHANGED <<hdlBody, aggVars, cleanVars, apiVars, srvVars, netVars, csvVars>>

\* c.BindJSON succeeds and the handler calls AnalyzeLogs or
\* AnalyzePerformance with the decoded batch.
HandlerCallsAnalyze ==
    /\ hdlPc = "bind"
    /\ hdlBody.decodes
    /\ logs' = hdlBody.logs
    /\ summary' = IF kind = "logs" THEN <<LogSummaryHeader>> ELSE <<PerfSummaryHeader>>
    /\ pc' = "group"
    /\ hdlPc' = "analyze"
    /\ UNCHANGED <<kind, i, pathStats, rendered, avgTimes, prompt, requests, reply, result>>
    /\ UNCHANGED <<hdlBody, hdlResp, cleanVars, apiVars, srvVars, netVars, csvVars>>

\* The analysis has returned: c.JSON(500, {"error": ...}) on an error,
\* c.JSON(200, {"analysis": ...}) otherwise.
HandlerResponds ==
    /\ hdlPc = "analyze"
    /\ pc = "done"
    /\ result.kind \in {"ok", "error"}
    /\ hdlResp' = Append(hdlResp,
                         IF result.kind = "error"
                         THEN HandlerResponse(StatusInternalServerError, "error")
                         ELSE HandlerResponse(StatusOK, "analysis"))
    /\ hdlPc' = "done"
    /\ UNCHANGED <<hdlBody, aggVars, cleanVars, apiVars, srvVars, netVars, csvVars>>

\* The analysis has panicked: the handler is unwound without writing a
\* response, and the recovery middleware of gin.Default() answers with the
\* status 500 and no body.
HandlerRecovers ==
    /\ hdlPc = "analyze"
    /\ pc = "done"
    /\ result.kind = "panic"
    /\ hdlResp' = Append(hdlResp, HandlerResponse(StatusInternalServerError, ""))
    /\ hdlPc' = "done"
    /\ UNCHANGED <<hdlBody, aggVars, cleanVars, apiVars, srvVars, netVars, csvVars>>

NextHandler ==
    \/ HandlerBindFails
    \/ HandlerCallsAnalyze
    \/ AnalyzeLogsStep
    \/ AnalyzePerformanceStep
    \/ GroupingDone
    \/ StatisticsStep
    \/ BuildPrompt
    \/ CallGemini
    \/ DecodeResult
    \/ HandlerResponds
    \/ HandlerRecovers

SpecHandler == InitHandler /\ [][NextHandler]_vars

\* Every stage of the analysis succeeded: the remote call gave a text and the
\* cleaned text decoded.
C11_EveryStageSucceeded ==
    LET r == callGeminiAPI(reply)
    IN  /\ requests # <<>>
        /\ r.kind = "text"
        /\ JSONDecodes(cleanJSONResponse(r.text))

\* C11: a request to /analyze/logs or /analyze/performance gets exactly one
\* response: 400 with an error message, and no remote call, when the body
\* does not decode; 500 with {"error": ...} when the remote call, the
\* extraction of the text or the decoding of the result fails; 200 with
\* {"analysis": ...} only when every stage succeeded.  The analysis returns
\* either a result with no error or an error with no result.
C11_OneResponsePerOutcome ==
    /\ Len(hdlResp) <= 1
    /\ pc = "done" => result.kind \in {"ok", "error"}
    /\ hdlPc = "done" =>
         /\ Len(hdlResp) = 1
         /\ ~hdlBody.decodes =>
              /\ hdlResp[1] = HandlerResponse(StatusBadRequest, "error")
              /\ requests = <<>>
         /\ (hdlBody.decodes /\ ~C11_EveryStageSucceeded) =>
              hdlResp[1] = HandlerResponse(StatusInternalServerError, "error")
         /\ hdlResp[1].code = StatusOK =>
              /\ hdlResp[1].key = "analysis"
              /\ hdlBody.decodes
              /\ C11_EveryStageSucceeded
         /\ (hdlBody.decodes /\ C11_EveryStageSucceeded) =>
              hdlResp[1] = HandlerResponse(StatusOK, "analysis")

-----------------------------------------------------------------------------
(* The network call of callGeminiAPI in time: client.Do and io.ReadAll     *)
(* under http.Client{Timeout: 15 * time.Second} and the caller's context.  *)

\* The client's timeout, in seconds.
ClientTimeout == 15

\* The errors that end a pending network call.
TimeoutCause == "Client.Timeout exceeded"

CanceledCause == "context canceled"

TransportCause == "transport error"

\* What the remote endpoint sends if it answers: the replies of an analysis
\* and a response whose body breaks off.
NetReplies == AnalyzeReplies \cup {ReadError(StatusOK)}

\* The network call is in flight: client.Do has not returned ("do"), or it
\* has and io.ReadAll has not ("read").
NetPending == apiPc \in {"do", "read"}

\* What the pending operation gives back when it is aborted.
Aborted == IF apiPc = "do" THEN DoError ELSE ReadError(apiReply.status)

\* fmt.Errorf("...: %v", err): the error of the call carries the cause.
WithCause(r, cause) == [r EXCEPT !.msg = @ \o ": " \o cause]

\* callGeminiAPI has built the request and calls client.Do.
InitNet ==
    /\ apiReply \in NetReplies
    /\ apiResult = NotReturned
    /\ apiPc = "do"
    /\ netElapsed = 0
    /\ netCause = ""
    /\ IdleAgg
    /\ IdleClean
    /\ IdleSrv
    /\ IdleHdl
    /\ IdleCsv

\* A second passes while the network call is in flight.
Tick ==
    /\ NetPending
    /\ netElapsed < ClientTimeout
    /\ netElapsed' = netElapsed + 1
    /\ UNCHANGED <<apiVars, netCause, aggVars, cleanVars, srvVars, hdlVars, csvVars>>

\* The remote endpoint sends a status line and headers: client.Do returns
\* the response.
RemoteAnswers ==
    /\ apiPc = "do"
    /\ apiReply.transport # "doError"
    /\ apiPc' = "read"
    /\ UNCHANGED <<apiReply, apiResult, netVars, aggVars, cleanVars, srvVars, hdlVars, csvVars>>

\* client.Do fails on its own account (no connection, for instance).
DoFails ==
    /\ apiPc = "do"
    /\ apiReply.transport = "doError"
    /\ netCause' = TransportCause
    /\ apiResult' = WithCause(callGeminiAPI(apiReply), netCause')
    /\ apiPc' = "done"
    /\ UNCHANGED <<apiReply, netElapsed, aggVars, cleanVars, srvVars, hdlVars, csvVars>>

\* The whole body has arrived: io.ReadAll returns it and the call goes on
\* to the status test and the decoding.
BodyArrives ==
    /\ apiPc = "read"
    /\ apiReply.transport = "ok"
    /\ apiResult' = callGeminiAPI(apiReply)
    /\ apiPc' = "done"
    /\ UNCHANGED <<apiReply, netVars, aggVars, cleanVars, srvVars, hdlVars, csvVars>>

\* The body breaks off: io.ReadAll fails on its own account.
ReadFails ==
    /\ apiPc = "read"
    /\ apiReply.transport = "readError"
    /\ netCause' = TransportCause
    /\ apiResult' = WithCause(callGeminiAPI(apiReply), netCause')
    /\ apiPc' = "done"
    /\ UNCHANGED <<apiReply, netElapsed, aggVars, cleanVars, srvVars, hdlVars, csvVars>>

\* A bug: the timer covers client.Do only, not the reading of the body.
TimeoutFiresBeforeHeaders ==
    /\ apiPc = "do"
    /\ netElapsed = ClientTimeout
    /\ netCause' = TimeoutCause
    /\ apiResult' = WithCause(callGeminiAPI(Aborted), netCause')
    /\ apiPc' = "done"
    /\ UNCHANGED <<apiReply, netElapsed, aggVars, cleanVars, srvVars, hdlVars, csvVars>>

\* The client's timer fires: the pending client.Do or io.ReadAll is aborted
\* and returns the timeout error.
TimeoutFires ==
    /\ NetPending
    /\ netElapsed = ClientTimeout
    /\ netCause' = TimeoutCause
    /\ apiResult' = WithCause(callGeminiAPI(Aborted), netCause')
    /\ apiPc' = "done"
    /\ UNCHANGED <<apiReply, netElapsed, aggVars, cleanVars, srvVars, hdlVars, csvVars>>

\* The caller's context is cancelled: the pending client.Do or io.ReadAll
\* is aborted and returns the context's error.
ContextCancelled ==
    /\ NetPending
    /\ netCause' = CanceledCause
    /\ apiResult' = WithCause(callGeminiAPI(Aborted), netCause')
    /\ apiPc' = "done"
    /\ UNCHANGED <<apiReply, netElapsed, aggVars, cleanVars, srvVars, hdlVars, csvVars>>

NextNet ==
    \/ Tick
    \/ RemoteAnswers
    \/ DoFails
    \/ BodyArrives
    \/ ReadFails
    \/ TimeoutFires
    \/ ContextCancelled

\* Time passes and the timer of the client fires when it is due; nothing is
\* assumed of the remote endpoint or of the caller's context.
SpecNet == InitNet /\ [][NextNet]_vars /\ WF_vars(Tick) /\ WF_vars(TimeoutFires)

\* The network errors of callGeminiAPI with the cause that ended the call.
C12_NetworkErrors ==
    { ReturnError(m \o ": " \o netCause, 0, NoBody) :
        m \in {"error making request", "error reading response body"} }

\* C12: every call of callGeminiAPI comes to an end, whether or not the
\* remote endpoint answers (the calls that end in the panic of a reply whose
\* first candidate is no object are counted as ended); the network call is
\* never in flight beyond the 15 seconds of the timeout, and a call ended by
\* the timeout or by the cancellation of the context returns a network error
\* that carries that cause, never a text.
C12_CallAlwaysReturns ==
    /\ <>(apiPc = "done")
    /\ [](NetPending => netElapsed <= ClientTimeout /\ apiResult = NotReturned)
    /\ [](netCause \in {TimeoutCause, CanceledCause} =>
            /\ apiPc = "done"
            /\ apiResult \in C12_NetworkErrors)

\* The remote endpoint answered with its headers and then never sent the
\* body: the timer fired during io.ReadAll.
C12_Witness ==
    /\ apiPc = "done"
    /\ apiReply.transport = "ok"
    /\ netElapsed = ClientTimeout
    /\ netCause = TimeoutCause
    /\ apiResult = ReturnError("error reading response body: " \o TimeoutCause, 0, NoBody)

-----------------------------------------------------------------------------
(* ConvertToCSV.  Texts are sequences of characters here, so that the      *)
(* quoting done by the csv.Writer is modelled character by character.      *)

Quote == "\""

\* A character that occurs in the metadata of the entries and nowhere else.
MetaChar == "#"

\* A LogEntry whose strings are sequences of characters.
CsvEntry(ts, lv, msg, p, m, d, st) ==
    [Timestamp |-> ts, Level |-> lv, Message |-> msg, Path |-> p, Method |-> m,
     Duration |-> d, Status |-> st, Metadata |-> [user |-> <<MetaChar>>]]

\* Field texts: empty, plain, and the ones the writer has to quote (a comma,
\* a quote, a line break, a leading space, and the text \. ).
CsvTexts ==
    { <<>>, <<"a">>, <<",">>, <<Quote>>, <<"\n">>, <<" ", "a">>,
      <<"a", ",", "b">>, <<Quote, "a", Quote>>, <<"a", "\n", "b">>, <<"\\", ".">> }

CsvEntries ==
    { CsvEntry(<<"t">>, <<"i">>, msg, <<"/", "a">>, <<"G">>, 12, 200) : msg \in CsvTexts }
    \cup
    { CsvEntry(<<>>, <<Quote>>, <<"m">>, <<",">>, <<"\n">>, MinInt64, 0),
      CsvEntry(<<"t", ",">>, <<>>, <<>>, <<>>, <<>>, -1, -1),
      CsvEntry(<<"t">>, <<"e">>, <<"m">>, <<"/">>, <<"P">>, MaxInt64, 500),
      CsvEntry(<<"t">>, <<"e">>, <<"m">>, <<"/">>, <<"P">>, 0, 404) }

CsvBatches == SeqsUpTo(CsvEntries, MaxRows)

Digit(d) == <<"0", "1", "2", "3", "4", "5", "6", "7", "8", "9">>[d + 1]

RECURSIVE NatDigits(_)
NatDigits(n) == IF n < 10 THEN <<Digit(n)>> ELSE Append(NatDigits(n \div 10), Digit(n % 10))

\* strconv.FormatInt(n, 10) and strconv.Itoa(n)
FormatInt(n) == IF n < 0 THEN <<"-">> \o NatDigits(0 - n) ELSE NatDigits(n)

\* header := []string{"timestamp", ..., "status"}
CsvHeader ==
    <<<<"t", "i", "m", "e", "s", "t", "a", "m", "p">>,
      <<"l", "e", "v", "e", "l">>,
      <<"m", "e", "s", "s", "a", "g", "e">>,
      <<"p", "a", "t", "h">>,
      <<"m", "e", "t", "h", "o", "d">>,
      <<"d", "u", "r", "a", "t", "i", "o", "n">>,
      <<"s", "t", "a", "t", "u", "s">>>>

\* A bug: the path is written before the message.
CsvRowPathFirst(log) ==
    <<log.Timestamp, log.Level, log.Path, log.Message, log.Method,
      FormatInt(log.Duration), FormatInt(log.Status)>>

\* row := []string{log.Timestamp, ..., strconv.Itoa(log.Status)}
CsvRow(log) ==
    <<log.Timestamp, log.Level, log.Message, log.Path, log.Method,
      FormatInt(log.Duration), FormatInt(log.Status)>>

\* csv.Writer.fieldNeedsQuotes
FieldNeedsQuotes(field) ==
    /\ field # <<>>
    /\ \/ field = <<"\\", ".">>
       \/ \E k \in 1..Len(field) : field[k] \in {",", Quote, "\r", "\n"}
       \/ field[1] \in {" ", "\t"}

\* The inside of a quoted field: every quote is doubled.
RECURSIVE EscapeQuotes(_)
EscapeQuotes(field) ==
    IF field = <<>> THEN <<>>
    ELSE (IF Head(field) = Quote THEN <<Quote, Quote>> ELSE <<Head(field)>>)
             \o EscapeQuotes(Tail(field))

WriteField(field) ==
    IF FieldNeedsQuotes(field) THEN <<Quote>> \o EscapeQuotes(field) \o <<Quote>>
    ELSE field

RECURSIVE JoinFields(_)
JoinFields(record) ==
    IF record = <<>> THEN <<>>
    ELSE IF Len(record) = 1 THEN WriteField(record[1])
    ELSE WriteField(Head(record)) \o <<",">> \o JoinFields(Tail(record))

\* What writer.Write(record) hands to the writer's buffer: the fields
\* separated by commas, and a line feed.
WriteRecord(record) == JoinFields(record) \o <<"\n">>

\* ConvertToCSV is entered with a batch.
InitCsv ==
    /\ csvLogs \in CsvBatches
    /\ csvNext = 0
    /\ csvPending = <<>>
    /\ csvBuffer = <<>>
    /\ csvResult = NoResult
    /\ csvPc = "header"
    /\ IdleAgg
    /\ IdleClean
    /\ IdleApi
    /\ IdleSrv
    /\ IdleHdl
    /\ IdleNet

\* writer.Write(header)
CsvWriteHeader ==
    /\ csvPc = "header"
    /\ csvPending' = csvPending \o WriteRecord(CsvHeader)
    /\ csvPc' = "rows"
    /\ UNCHANGED <<csvLogs, csvNext, csvBuffer, csvResult>>
    /\ UNCHANGED <<aggVars, cleanVars, apiVars, srvVars, hdlVars, netVars>>

\* for _, log := range logs { writer.Write(row) }, one iteration.
CsvWriteRow ==
    /\ csvPc = "rows"
    /\ csvNext < Len(csvLogs)
    /\ csvPending' = csvPending \o WriteRecord(CsvRow(csvLogs[csvNext + 1]))
    /\ csvNext' = csvNext + 1
    /\ UNCHANGED <<csvLogs, csvBuffer, csvResult, csvPc>>
    /\ UNCHANGED <<aggVars, cleanVars, apiVars, srvVars, hdlVars, netVars>>

\* writer.Flush(); writer.Error() is nil; return buffer.Bytes(), nil
CsvFlushAndReturn ==
    /\ csvPc = "rows"
    /\ csvNext = Len(csvLogs)
    /\ csvBuffer' = csvBuffer \o csvPending
    /\ csvPending' = <<>>
    /\ csvResult' = [kind |-> "ok", msg |-> ""]
    /\ csvPc' = "done"
    /\ UNCHANGED <<csvLogs, csvNext>>
    /\ UNCHANGED <<aggVars, cleanVars, apiVars, srvVars, hdlVars, netVars>>

NextCsv ==
    \/ CsvWriteHeader
    \/ CsvWriteRow
    \/ CsvFlushAndReturn

SpecCsv == InitCsv /\ [][NextCsv]_vars

\* The records of a CSV text (RFC 4180): fields are separated by commas and
\* records by line feeds, outside quotes; a field that starts with a quote
\* runs to its closing quote and holds a quote for every doubled one.
\* A character is inside quotes when an odd number of quotes precedes it.
C13_Inside(s, k) == Cardinality({ j \in 1..(k - 1) : s[j] = Quote }) % 2 = 1

C13_Separators(s, c, lo, hi) == { k \in lo..hi : s[k] = c /\ ~C13_Inside(s, k) }

\* The stretches <<first, last>> of s[lo..hi] between the separators c.
RECURSIVE C13_Split(_, _, _, _)
C13_Split(s, c, lo, hi) ==
    LET seps == C13_Separators(s, c, lo, hi)
    IN  IF seps = {} THEN << <<lo, hi>> >>
        ELSE LET m == CHOOSE k \in seps : \A j \in seps : k <= j
             IN  << <<lo, m - 1>> >> \o C13_Split(s, c, m + 1, hi)

RECURSIVE C13_Undouble(_)
C13_Undouble(f) ==
    IF f = <<>> THEN <<>>
    ELSE IF Head(f) = Quote THEN <<Quote>> \o C13_Undouble(SubSeq(f, 3, Len(f)))
    ELSE <<Head(f)>> \o C13_Undouble(Tail(f))

C13_Unquote(raw) ==
    IF raw # <<>> /\ raw[1] = Quote THEN C13_Undouble(SubSeq(raw, 2, Len(raw) - 1))
    ELSE raw

C13_Fields(s, lo, hi) ==
    LET parts == C13_Split(s, ",", lo, hi)
    IN  [k \in DOMAIN parts |-> C13_Unquote(SubSeq(s, parts[k][1], parts[k][2]))]

\* A line feed ends a record: nothing follows the last one.
C13_Records(s) ==
    LET lines == C13_Split(s, "\n", 1, Len(s))
        ended == IF lines[Len(lines)][1] > Len(s) THEN SubSeq(lines, 1, Len(lines) - 1)
                 ELSE lines
    IN  [k \in DOMAIN ended |-> C13_Fields(s, ended[k][1], ended[k][2])]

\* The fields of a record as strings.
C13_Strings(rec) == [k \in DOMAIN rec |-> BuilderString(rec[k])]

\* The seven fields the claim gives for an entry.
C13_FieldsOf(log) ==
    <<BuilderString(log.Timestamp), BuilderString(log.Level), BuilderString(log.Message),
      BuilderString(log.Path), BuilderString(log.Method),
      ToString(log.Duration), ToString(log.Status)>>

====
